---- MODULE Spec2Model ----
(***************************************************************************)
(* A model of src/main.cpp: the exception class CustomResourceException,   *)
(* the RAII class Resource (constructor, destructor, move members,         *)
(* performOperation, close) and the driver main().                         *)
(*                                                                         *)
(* Two specifications share the state:                                     *)
(*   Spec      a caller that constructs Resource objects and calls their   *)
(*             members in any order, catching what each call throws;       *)
(*   SpecMain  the program main(), statement by statement, with the names  *)
(*             given to its resources and the operands of divide drawn     *)
(*             from small sets (the literals of main.cpp among them).      *)
(***************************************************************************)
EXTENDS Integers, Sequences, FiniteSets, TLC

VARIABLES
    life,        \* per object: "unborn", "live" (constructed), "gone" (destroyed)
    name_,       \* Resource::name_ of a live object
    is_open_,    \* Resource::is_open_ of a live object
    ident,       \* ghost: which constructed resource the object holds (0: none)
    nOpened,     \* ghost, per resource: "opened" lines written so far
    nClosed,     \* ghost, per resource: "closed" lines written so far
    nPropagated, \* ghost, per resource: close failures thrown to a caller
    nSunk,       \* ghost, per resource: close failures written to std::cerr
    last,        \* the most recent member call: its pre-state and its outcome
    out,         \* main(): the console transcript (std::cout and std::cerr lines)
    pc,          \* main(): the statement about to run
    exc,         \* main(): the exception in flight (NoExc: none)
    thrown,      \* main(): the exception as it left its throw expression
    args,        \* main(): the names it gives its resources, dividend and divisor
    terminated,  \* std::terminate was called
    stringMove,  \* what this build's std::string move leaves in its source
    signedOverflow \* what this build does on a signed division that overflows

vars == << life, name_, is_open_, ident, nOpened, nClosed, nPropagated, nSunk, last,
           out, pc, exc, thrown, args, terminated, stringMove,
           signedOverflow >>

objVars == << life, name_, is_open_, ident, nOpened, nClosed, nPropagated, nSunk,
             last >>
mainVars == << out, pc, exc, thrown, args >>
libVars == << stringMove, signedOverflow >>

----------------------------------------------------------------------------
(* Bounds and inputs *)

\* Resource objects the caller of Spec may construct.
MaxObjs == 2

\* The fault-injection sentinels of performOperation and close.
Faulty == "faulty"
Failing == "failing"

\* Names given to resources: both sentinels and a plain name.
Names == { Faulty, Failing, "r1" }

\* The Resource objects of main(), in order of construction.
Basic == 1
R1 == 2
R2 == 3
R3 == 4

Slots == 1..(IF MaxObjs > R3 THEN MaxObjs ELSE R3)

----------------------------------------------------------------------------
(* Exceptions *)

\* std::exception and the standard classes main.cpp throws, with their bases.
Bases(t) ==
    CASE t = "CustomResourceException" ->
             { "CustomResourceException", "std::runtime_error", "std::exception" }
      [] t = "std::runtime_error" -> { "std::runtime_error", "std::exception" }
      [] t = "std::invalid_argument" ->
             { "std::invalid_argument", "std::logic_error", "std::exception" }
      [] t = "std::exception" -> { "std::exception" }
      [] OTHER -> {}

\* Whether a handler `catch (const base&)` takes an exception of dynamic type t.
Catches(base, t) == base \in Bases(t)

\* nested_ptr_ == nullptr
NoNested == [ present |-> FALSE, what |-> "" ]

NoExc == [ type |-> "none", what |-> "", nested |-> NoNested ]

\* what() of an object of class std::exception itself (libstdc++, libc++).
StdExceptionWhat == "std::exception"

RuntimeError(message) ==
    [ type |-> "std::runtime_error", what |-> message, nested |-> NoNested ]

InvalidArgument(message) ==
    [ type |-> "std::invalid_argument", what |-> message, nested |-> NoNested ]

\* The one-argument constructor setting nested_ptr_ to a fresh std::exception.
CustomResourceException_WithNested(message) ==
    [ type |-> "CustomResourceException", what |-> message,
      nested |-> [ present |-> TRUE, what |-> StdExceptionWhat ] ]

\* CustomResourceException(const std::string& message)
CustomResourceException(message) ==
    [ type |-> "CustomResourceException", what |-> message, nested |-> NoNested ]

\* CustomResourceException(message, nested): std::make_shared<std::exception>(nested)
\* copy-constructs an object of class std::exception from the std::exception
\* base of `nested`, so the stored object's what() is that of std::exception.
CustomResourceExceptionNested(message, nestedExc) ==
    [ type |-> "CustomResourceException", what |-> message,
      nested |-> [ present |-> TRUE, what |-> StdExceptionWhat ] ]

----------------------------------------------------------------------------
(* Console lines *)

Cout(text) == [ ch |-> "cout", text |-> text ]
Cerr(text) == [ ch |-> "cerr", text |-> text ]

OpenedLine(n) == Cout("Resource " \o n \o " opened")
PerformedLine(n) == Cout("Operation performed on resource " \o n)
ClosedLine(n) == Cout("Resource " \o n \o " closed")
DestructorLine(e) == Cerr("Destructor caught exception: " \o e.what)

\* The three failures of Resource, told apart by their text as a handler can.
ResourceClosed(n) == CustomResourceException("Resource " \o n \o " is closed")
ResourceFaulty(n) == CustomResourceException("Resource " \o n \o " is faulty")
CloseFailed(n) == CustomResourceException("Failed to close resource " \o n)

\* How many entries of the sequence s equal x.
Count(s, x) == Cardinality({ i \in 1..Len(s) : s[i] = x })

----------------------------------------------------------------------------
(* class Resource: each member as a function of the object's fields.       *)
(* A result gives the fields the member leaves, the lines it writes and    *)
(* the exception it throws (NoExc: it returns normally).                   *)

\* explicit Resource(std::string name)
Resource_ctor(n) ==
    [ name |-> n, is_open |-> TRUE, out |-> << OpenedLine(n) >>, exc |-> NoExc ]

\* performOperation with the two checks in the other order.
performOperation_FaultyFirst(n, open) ==
    IF n = Faulty
    THEN [ is_open |-> open, out |-> << >>, exc |-> ResourceFaulty(n) ]
    ELSE IF ~open
    THEN [ is_open |-> open, out |-> << >>, exc |-> ResourceClosed(n) ]
    ELSE [ is_open |-> open, out |-> << PerformedLine(n) >>, exc |-> NoExc ]

\* performOperation taking both sentinels for the faulty one.
performOperation_BothSentinels(n, open) ==
    IF ~open
    THEN [ is_open |-> open, out |-> << >>, exc |-> ResourceClosed(n) ]
    ELSE IF n = Faulty \/ n = Failing
    THEN [ is_open |-> open, out |-> << >>, exc |-> ResourceFaulty(n) ]
    ELSE [ is_open |-> open, out |-> << PerformedLine(n) >>, exc |-> NoExc ]

\* performOperation without the fault injection.
performOperation_NoFaultCheck(n, open) ==
    IF ~open
    THEN [ is_open |-> open, out |-> << >>, exc |-> ResourceClosed(n) ]
    ELSE [ is_open |-> open, out |-> << PerformedLine(n) >>, exc |-> NoExc ]

\* performOperation marking a faulty resource closed before it throws.
performOperation_ClosesOnFault(n, open) ==
    IF ~open
    THEN [ is_open |-> open, out |-> << >>, exc |-> ResourceClosed(n) ]
    ELSE IF n = Faulty
    THEN [ is_open |-> FALSE, out |-> << >>, exc |-> ResourceFaulty(n) ]
    ELSE [ is_open |-> open, out |-> << PerformedLine(n) >>, exc |-> NoExc ]

\* void performOperation()
performOperation(n, open) ==
    IF ~open
    THEN [ is_open |-> open, out |-> << >>, exc |-> ResourceClosed(n) ]
    ELSE IF n = Faulty
    THEN [ is_open |-> open, out |-> << >>, exc |-> ResourceFaulty(n) ]
    ELSE [ is_open |-> open, out |-> << PerformedLine(n) >>, exc |-> NoExc ]

\* close throwing before it has marked the resource closed.
close_ThrowFirst(n, open) ==
    IF open
    THEN IF n = Failing
         THEN [ is_open |-> open, out |-> << >>, exc |-> CloseFailed(n) ]
         ELSE [ is_open |-> FALSE, out |-> << ClosedLine(n) >>, exc |-> NoExc ]
    ELSE [ is_open |-> open, out |-> << >>, exc |-> NoExc ]

\* close without the test of is_open_.
close_NoGuard(n, open) ==
    [ is_open |-> FALSE,
      out |-> << ClosedLine(n) >>,
      exc |-> IF n = Failing THEN CloseFailed(n) ELSE NoExc ]

\* void close()
close(n, open) ==
    IF open
    THEN [ is_open |-> FALSE,
           out |-> << ClosedLine(n) >>,
           exc |-> IF n = Failing THEN CloseFailed(n) ELSE NoExc ]
    ELSE [ is_open |-> open, out |-> << >>, exc |-> NoExc ]

\* ~Resource() whose handler names a class close() does not throw.
Resource_dtor_WrongHandler(n, open) ==
    LET c == close(n, open)
        handled == c.exc # NoExc /\ Catches("std::invalid_argument", c.exc.type)
    IN  [ is_open |-> c.is_open,
          out |-> IF handled THEN c.out \o << DestructorLine(c.exc) >> ELSE c.out,
          raised |-> c.exc,
          exc |-> IF handled THEN NoExc ELSE c.exc,
          terminate |-> c.exc # NoExc /\ ~handled ]

\* ~Resource() that does not call close().
Resource_dtor_NoClose(n, open) ==
    [ is_open |-> open, out |-> << >>, raised |-> NoExc, exc |-> NoExc,
      terminate |-> FALSE ]

\* ~Resource() whose handler is empty.
Resource_dtor_Swallow(n, open) ==
    LET c == close(n, open)
    IN  [ is_open |-> c.is_open, out |-> c.out, raised |-> c.exc, exc |-> NoExc,
          terminate |-> FALSE ]

\* ~Resource() whose handler reports and rethrows.
Resource_dtor_Rethrow(n, open) ==
    LET c == close(n, open)
    IN  [ is_open |-> c.is_open,
          out |-> IF c.exc # NoExc THEN c.out \o << DestructorLine(c.exc) >> ELSE c.out,
          raised |-> c.exc,
          exc |-> c.exc,
          terminate |-> c.exc # NoExc ]

\* ~Resource(): close() inside try, with a handler for CustomResourceException.
\* raised is what close() threw; exc is what leaves the destructor.  A
\* destructor is noexcept, so an exception leaving it calls std::terminate.
Resource_dtor(n, open) ==
    LET c == close(n, open)
        handled == c.exc # NoExc /\ Catches("CustomResourceException", c.exc.type)
    IN  [ is_open |-> c.is_open,
          out |-> IF handled THEN c.out \o << DestructorLine(c.exc) >> ELSE c.out,
          raised |-> c.exc,
          exc |-> IF handled THEN NoExc ELSE c.exc,
          terminate |-> c.exc # NoExc /\ ~handled ]

\* The value a moved-from std::string is left with is unspecified: the
\* library of a build empties it, leaves its characters, or (on assignment)
\* swaps it with the destination.
StringMoves == { "emptied", "kept", "swapped" }

\* What the move construction of line 45 leaves in other.name_, which held n.
MovedFromName(n) == IF stringMove = "kept" THEN n ELSE ""

\* What the move assignment of line 51 leaves in other.name_, which held
\* otherName, when name_ held thisName: a library that swaps the two strings
\* (the copy-on-write std::string of libstdc++) leaves the destination's old
\* name there.
MovedFromAssignedName(thisName, otherName) ==
    CASE stringMove = "emptied" -> ""
      [] stringMove = "kept" -> otherName
      [] stringMove = "swapped" -> thisName

\* Resource(Resource&&) marking the new object open as the other constructor does.
Resource_move_DestAlwaysOpen(otherName, otherOpen, srcName) ==
    [ name |-> otherName, is_open |-> TRUE,
      otherName |-> srcName, otherOpen |-> FALSE ]

\* Resource(Resource&&) without `other.is_open_ = false`.
Resource_move_KeepsSourceOpen(otherName, otherOpen, srcName) ==
    [ name |-> otherName, is_open |-> otherOpen,
      otherName |-> srcName, otherOpen |-> otherOpen ]

\* Resource(Resource&& other) noexcept; srcName is what other.name_ is left with.
Resource_move(otherName, otherOpen, srcName) ==
    [ name |-> otherName, is_open |-> otherOpen,
      otherName |-> srcName, otherOpen |-> FALSE ]

\* operator=(Resource&&) marking the destination open whatever the source was.
Resource_move_assign_AlwaysOpen(thisName, thisOpen, otherName, otherOpen, same, srcName) ==
    IF ~same
    THEN [ name |-> otherName, is_open |-> TRUE,
           otherName |-> srcName, otherOpen |-> FALSE ]
    ELSE [ name |-> thisName, is_open |-> thisOpen,
           otherName |-> thisName, otherOpen |-> thisOpen ]

\* operator=(Resource&&) without `other.is_open_ = false`.
Resource_move_assign_KeepsSourceOpen(thisName, thisOpen, otherName, otherOpen, same, srcName) ==
    IF ~same
    THEN [ name |-> otherName, is_open |-> otherOpen,
           otherName |-> srcName, otherOpen |-> otherOpen ]
    ELSE [ name |-> thisName, is_open |-> thisOpen,
           otherName |-> thisName, otherOpen |-> thisOpen ]

\* operator=(Resource&&) without the test `this != &other`.
Resource_move_assign_NoSelfCheck(thisName, thisOpen, otherName, otherOpen, same, srcName) ==
    [ name |-> otherName, is_open |-> IF same THEN FALSE ELSE otherOpen,
      otherName |-> IF same THEN otherName ELSE srcName, otherOpen |-> FALSE ]

\* Resource& operator=(Resource&& other) noexcept; same is (this == &other).
Resource_move_assign(thisName, thisOpen, otherName, otherOpen, same, srcName) ==
    IF ~same
    THEN [ name |-> otherName, is_open |-> otherOpen,
           otherName |-> srcName, otherOpen |-> FALSE ]
    ELSE [ name |-> thisName, is_open |-> thisOpen,
           otherName |-> thisName, otherOpen |-> thisOpen ]

----------------------------------------------------------------------------
(* Member calls on the objects of the state *)

Ids == {0} \cup Slots

NoCall ==
    [ op |-> "none", obj |-> 0, name |-> "", wasOpen |-> FALSE, id |-> 0,
      other |-> 0, otherName |-> "", otherWasOpen |-> FALSE,
      raised |-> NoExc, exc |-> NoExc, out |-> << >> ]

Call(op, o, r) ==
    [ op |-> op, obj |-> o, name |-> name_[o], wasOpen |-> is_open_[o],
      id |-> ident[o], other |-> 0, otherName |-> "", otherWasOpen |-> FALSE,
      raised |-> r.exc, exc |-> r.exc, out |-> r.out ]

Add(f, i, k) == [ f EXCEPT ![i] = @ + k ]

\* Resource o(n);
DoCreate(o, n) ==
    LET r == Resource_ctor(n)
    IN  /\ life[o] = "unborn"
        /\ life' = [ life EXCEPT ![o] = "live" ]
        /\ name_' = [ name_ EXCEPT ![o] = r.name ]
        /\ is_open_' = [ is_open_ EXCEPT ![o] = r.is_open ]
        /\ ident' = [ ident EXCEPT ![o] = o ]
        /\ last' = [ NoCall EXCEPT !.op = "create", !.obj = o, !.name = n,
                                   !.id = o, !.out = r.out ]
        /\ nOpened' = Add(nOpened, o, Count(r.out, OpenedLine(n)))
        /\ UNCHANGED << nClosed, nPropagated, nSunk, terminated >>

\* o.performOperation();
DoPerform(o) ==
    LET r == performOperation(name_[o], is_open_[o])
    IN  /\ life[o] = "live"
        /\ is_open_' = [ is_open_ EXCEPT ![o] = r.is_open ]
        /\ last' = Call("performOperation", o, r)
        /\ UNCHANGED << life, name_, ident, nOpened, nClosed, nPropagated, nSunk,
                        terminated >>

\* o.close();
DoClose(o) ==
    LET r == close(name_[o], is_open_[o])
    IN  /\ life[o] = "live"
        /\ is_open_' = [ is_open_ EXCEPT ![o] = r.is_open ]
        /\ nClosed' = Add(nClosed, ident[o], Count(r.out, ClosedLine(name_[o])))
        /\ nPropagated' = Add(nPropagated, ident[o], IF r.exc # NoExc THEN 1 ELSE 0)
        /\ last' = Call("close", o, r)
        /\ UNCHANGED << life, name_, ident, nOpened, nSunk, terminated >>

\* o goes out of scope (or its owning std::unique_ptr does): ~Resource(),
\* after which the object and its members are no more.
DoDestroy(o) ==
    LET r == Resource_dtor(name_[o], is_open_[o])
    IN  /\ life[o] = "live"
        /\ life' = [ life EXCEPT ![o] = "gone" ]
        /\ name_' = [ name_ EXCEPT ![o] = "" ]
        /\ is_open_' = [ is_open_ EXCEPT ![o] = FALSE ]
        /\ ident' = [ ident EXCEPT ![o] = 0 ]
        /\ nClosed' = Add(nClosed, ident[o], Count(r.out, ClosedLine(name_[o])))
        /\ nPropagated' = Add(nPropagated, ident[o], IF r.exc # NoExc THEN 1 ELSE 0)
        /\ nSunk' = Add(nSunk, ident[o],
                        IF r.raised # NoExc
                        THEN Count(r.out, DestructorLine(r.raised)) ELSE 0)
        /\ last' = [ Call("destroy", o, r) EXCEPT !.raised = r.raised ]
        /\ terminated' = r.terminate
        /\ UNCHANGED nOpened

\* Resource d(std::move(s));
DoMoveConstruct(d, s, srcName) ==
    LET r == Resource_move(name_[s], is_open_[s], srcName)
    IN  /\ life[d] = "unborn" /\ life[s] = "live"
        /\ life' = [ life EXCEPT ![d] = "live" ]
        /\ name_' = [ name_ EXCEPT ![d] = r.name, ![s] = r.otherName ]
        /\ is_open_' = [ is_open_ EXCEPT ![d] = r.is_open, ![s] = r.otherOpen ]
        /\ ident' = [ ident EXCEPT ![d] = ident[s], ![s] = 0 ]
        /\ last' = [ NoCall EXCEPT !.op = "moveConstruct", !.obj = d,
                                   !.name = r.name, !.id = ident[s],
                                   !.other = s, !.otherName = name_[s],
                                   !.otherWasOpen = is_open_[s] ]
        /\ UNCHANGED << nOpened, nClosed, nPropagated, nSunk, terminated >>

\* d = std::move(s);
DoMoveAssign(d, s, srcName) ==
    LET r == Resource_move_assign(name_[d], is_open_[d], name_[s], is_open_[s],
                                  d = s, srcName)
    IN  /\ life[d] = "live" /\ life[s] = "live"
        /\ name_' = [ name_ EXCEPT ![s] = r.otherName, ![d] = r.name ]
        /\ is_open_' = [ is_open_ EXCEPT ![s] = r.otherOpen, ![d] = r.is_open ]
        /\ ident' = IF d = s THEN ident
                    ELSE [ ident EXCEPT ![d] = ident[s], ![s] = 0 ]
        /\ last' = [ NoCall EXCEPT !.op = "moveAssign", !.obj = d,
                                   !.name = name_[d], !.wasOpen = is_open_[d],
                                   !.id = ident[d],
                                   !.other = s, !.otherName = name_[s],
                                   !.otherWasOpen = is_open_[s] ]
        /\ UNCHANGED << life, nOpened, nClosed, nPropagated, nSunk, terminated >>

----------------------------------------------------------------------------
(* Spec: a caller of class Resource.  It constructs objects in the slots   *)
(* 1..MaxObjs in order, calls members of the live ones in any order and    *)
(* catches what each call throws (recorded in last.exc).                   *)

MainArgs ==
    [ basic |-> "basic", r1 |-> "r1", r2 |-> Faulty, r3 |-> Failing, a |-> 10, b |-> 0 ]

Init ==
    /\ life = [ o \in Slots |-> "unborn" ]
    /\ name_ = [ o \in Slots |-> "" ]
    /\ is_open_ = [ o \in Slots |-> FALSE ]
    /\ ident = [ o \in Slots |-> 0 ]
    /\ nOpened = [ i \in Ids |-> 0 ]
    /\ nClosed = [ i \in Ids |-> 0 ]
    /\ nPropagated = [ i \in Ids |-> 0 ]
    /\ nSunk = [ i \in Ids |-> 0 ]
    /\ last = NoCall
    /\ out = << >>
    /\ pc = "caller"
    /\ exc = NoExc
    /\ thrown = NoExc
    /\ args = MainArgs
    /\ terminated = FALSE
    /\ stringMove \in StringMoves
    /\ signedOverflow = "trap"

\* The next slot to construct an object in.
NextSlot(o) ==
    /\ o \in 1..MaxObjs
    /\ life[o] = "unborn"
    /\ \A p \in 1..(o - 1) : life[p] # "unborn"

Create ==
    \E o \in 1..MaxObjs, n \in Names :
        /\ ~terminated /\ NextSlot(o)
        /\ DoCreate(o, n)
        /\ UNCHANGED << mainVars, libVars >>

PerformOperation ==
    \E o \in 1..MaxObjs :
        /\ ~terminated
        /\ DoPerform(o)
        /\ UNCHANGED << mainVars, libVars >>

Close ==
    \E o \in 1..MaxObjs :
        /\ ~terminated
        /\ DoClose(o)
        /\ UNCHANGED << mainVars, libVars >>

Destroy ==
    \E o \in 1..MaxObjs :
        /\ ~terminated
        /\ DoDestroy(o)
        /\ UNCHANGED << mainVars, libVars >>

MoveConstruct ==
    \E d \in 1..MaxObjs, s \in 1..MaxObjs :
        /\ ~terminated /\ NextSlot(d) /\ life[s] = "live"
        /\ DoMoveConstruct(d, s, MovedFromName(name_[s]))
        /\ UNCHANGED << mainVars, libVars >>

MoveAssign ==
    \E d \in 1..MaxObjs, s \in 1..MaxObjs :
        /\ ~terminated /\ life[d] = "live" /\ life[s] = "live"
        /\ DoMoveAssign(d, s, MovedFromAssignedName(name_[d], name_[s]))
        /\ UNCHANGED << mainVars, libVars >>

Next ==
    \/ Create
    \/ PerformOperation
    \/ Close
    \/ Destroy
    \/ MoveConstruct
    \/ MoveAssign

Spec == Init /\ [][Next]_vars

----------------------------------------------------------------------------
(* SpecMain: the program main().  pc names the statement about to run.     *)
(* A throw sets exc and thrown and leaves the block it is in: the block's  *)
(* objects are destroyed in reverse order of construction, then the        *)
(* block's handlers are tried, then the enclosing block is left.           *)

\* int of this build: 32 bits, two's complement.
IntBits == 32
IntMax == 2147483647
IntMin == (0 - IntMax) - 1

\* The conversion of the int x to a signed type narrower than int: modulo
\* 2^bits.
Narrow(x, bits) == ((x + 2 ^ (bits - 1)) % (2 ^ bits)) - 2 ^ (bits - 1)

\* What a build can do on the signed division IntMin / -1, whose quotient is
\* not an int (undefined behaviour): the processor traps and the process is
\* killed (x86), or the quotient wraps to IntMin.
SignedOverflows == { "trap", "wrap" }

\* a / b overflows int.
Overflows(a, b) == a = IntMin /\ b = 0 - 1

\* The quotient a / b of two ints, b # 0 and ~Overflows(a, b): it truncates
\* toward zero (\div rounds toward minus infinity).
Quotient(a, b) ==
    LET trunc(x, y) ==      \* y > 0
            IF x < 0 /\ x % y # 0 THEN (x \div y) + 1 ELSE x \div y
    IN  IF b > 0 THEN trunc(a, b)
        ELSE IF b = IntMin THEN (IF a = IntMin THEN 1 ELSE 0)
        ELSE 0 - trunc(a, 0 - b)

\* template<typename T> T divide(T a, T b) noexcept(false), T a signed
\* integer type of bits bits (bits <= IntBits), a and b values of T.  The
\* operands of a / b are promoted to int and the quotient is converted to T.
\* killed: the process was killed inside a / b (there is no value then).
divide_T(bits, a, b) ==
    IF b = 0
    THEN [ exc |-> InvalidArgument("Division by zero"), value |-> 0, killed |-> FALSE ]
    ELSE IF bits = IntBits /\ Overflows(a, b)
    THEN IF signedOverflow = "trap"
         THEN [ exc |-> NoExc, value |-> 0, killed |-> TRUE ]
         ELSE [ exc |-> NoExc, value |-> IntMin, killed |-> FALSE ]
    ELSE [ exc |-> NoExc,
           value |-> IF bits = IntBits THEN Quotient(a, b)
                     ELSE Narrow(Quotient(a, b), bits),
           killed |-> FALSE ]

\* divide() without the test of the divisor (the quotient of a division by
\* zero is reported as 0).
divide_NoZeroCheck(a, b) ==
    IF b = 0
    THEN [ exc |-> NoExc, value |-> 0, killed |-> FALSE ]
    ELSE divide_T(IntBits, a, b)

\* divide as main() instantiates it: divide(10, 0), T = int.
divide(a, b) == divide_T(IntBits, a, b)

\* The dividends main() is run with: its literal and the one whose quotient
\* by -1 is not an int.
Dividends == { 10, IntMin }

\* The divisors main() is run with: its literal, one that does not throw and
\* the one that overflows.
Divisors == { 0, 2, 0 - 1 }

InitMain ==
    /\ life = [ o \in Slots |-> "unborn" ]
    /\ name_ = [ o \in Slots |-> "" ]
    /\ is_open_ = [ o \in Slots |-> FALSE ]
    /\ ident = [ o \in Slots |-> 0 ]
    /\ nOpened = [ i \in Ids |-> 0 ]
    /\ nClosed = [ i \in Ids |-> 0 ]
    /\ nPropagated = [ i \in Ids |-> 0 ]
    /\ nSunk = [ i \in Ids |-> 0 ]
    /\ last = NoCall
    /\ out = << >>
    /\ pc = "ex1_create"
    /\ exc = NoExc
    /\ thrown = NoExc
    /\ args \in [ basic : Names \cup { "basic" }, r1 : Names, r2 : Names, r3 : Names,
                  a : Dividends, b : Divisors ]
    /\ terminated = FALSE
    /\ stringMove = "emptied"
    /\ signedOverflow \in SignedOverflows

Header(title) == << Cout(""), Cout(title) >>

\* Where control goes after a statement of a block: on when it returned,
\* to the block's exit when it threw.
After(e, on, exit) == IF e = NoExc THEN on ELSE exit

\* A throw expression, or a call that threw: the exception is now in flight.
Raise(e) ==
    /\ exc' = e
    /\ thrown' = (IF e = NoExc THEN thrown ELSE e)

\* main.cpp 104-105
Ex1Create ==
    /\ pc = "ex1_create"
    /\ DoCreate(Basic, args.basic)
    /\ out' = out \o Header("1. Smart Pointer Example:") \o last'.out
    /\ pc' = "ex1_perform"
    /\ UNCHANGED << exc, thrown, args, libVars >>

\* main.cpp 106
Ex1Perform ==
    /\ pc = "ex1_perform"
    /\ DoPerform(Basic)
    /\ out' = out \o last'.out
    /\ Raise(last'.exc)
    /\ pc' = After(last'.exc, "ex2_throw", "outer_exit")
    /\ UNCHANGED << args, libVars >>

\* main.cpp 109-111
Ex2Throw ==
    /\ pc = "ex2_throw"
    /\ out' = out \o Header("2. Multiple Catch Blocks:")
    /\ Raise(RuntimeError("Runtime error"))
    /\ pc' = "ex2_catch"
    /\ UNCHANGED << objVars, args, terminated, libVars >>

\* main.cpp 112-116: the handlers are tried in order.
Ex2Catch ==
    /\ pc = "ex2_catch"
    /\ out' = out \o
              (IF Catches("std::invalid_argument", exc.type)
               THEN << Cout("Caught invalid argument: " \o exc.what) >>
               ELSE IF Catches("std::exception", exc.type)
               THEN << Cout("Caught exception: " \o exc.what) >>
               ELSE << >>)
    /\ exc' = (IF Catches("std::invalid_argument", exc.type)
                  \/ Catches("std::exception", exc.type)
               THEN NoExc ELSE exc)
    /\ pc' = After(exc', "ex3_create", "outer_exit")
    /\ UNCHANGED << objVars, thrown, args, terminated, libVars >>

\* main.cpp 119-121
Ex3Create ==
    /\ pc = "ex3_create"
    /\ DoCreate(R1, args.r1)
    /\ out' = out \o Header("3. RAII Example:") \o last'.out
    /\ pc' = "ex3_perform"
    /\ UNCHANGED << exc, thrown, args, libVars >>

\* main.cpp 122
Ex3Perform ==
    /\ pc = "ex3_perform"
    /\ DoPerform(R1)
    /\ out' = out \o last'.out
    /\ Raise(last'.exc)
    /\ pc' = "ex3_exit"
    /\ UNCHANGED << args, libVars >>

\* main.cpp 124: the block of r1 is left, normally or by the exception.
Ex3Exit ==
    /\ pc = "ex3_exit"
    /\ DoDestroy(R1)
    /\ out' = out \o last'.out
    /\ pc' = (IF terminated' THEN "terminated"
              ELSE After(exc, "ex4_divide", "outer_exit"))
    /\ UNCHANGED << exc, thrown, args, libVars >>

\* main.cpp 127-129; a process killed inside a / b goes no further.
Ex4Divide ==
    /\ pc = "ex4_divide"
    /\ out' = out \o Header("4. Exception Specification:")
    /\ Raise(divide(args.a, args.b).exc)
    /\ pc' = (IF divide(args.a, args.b).killed THEN "killed"
              ELSE After(exc', "ex5_throw", "ex4_catch"))
    /\ UNCHANGED << objVars, args, terminated, libVars >>

\* main.cpp 130-132
Ex4Catch ==
    /\ pc = "ex4_catch"
    /\ out' = out \o
              (IF Catches("std::invalid_argument", exc.type)
               THEN << Cout("Division error: " \o exc.what) >> ELSE << >>)
    /\ exc' = (IF Catches("std::invalid_argument", exc.type) THEN NoExc ELSE exc)
    /\ pc' = After(exc', "ex5_throw", "outer_exit")
    /\ UNCHANGED << objVars, thrown, args, terminated, libVars >>

\* main.cpp 135-137 and 85-86
Ex5Throw ==
    /\ pc = "ex5_throw"
    /\ out' = out \o Header("5. Nested Exceptions:")
    /\ Raise(RuntimeError("Original error"))
    /\ pc' = "ex5_wrap"
    /\ UNCHANGED << objVars, args, terminated, libVars >>

\* main.cpp 87-89: demonstrateNestedExceptions' handler wraps what it caught.
Ex5Wrap ==
    /\ pc = "ex5_wrap"
    /\ Raise(IF Catches("std::exception", exc.type)
             THEN CustomResourceExceptionNested("Wrapper error", exc)
             ELSE exc)
    /\ pc' = "ex5_catch"
    /\ UNCHANGED << objVars, out, args, terminated, libVars >>

\* main.cpp 138-143
Ex5Catch ==
    /\ pc = "ex5_catch"
    /\ out' = out \o
              (IF Catches("CustomResourceException", exc.type)
               THEN << Cout("Main error: " \o exc.what) >> \o
                    (IF exc.nested.present
                     THEN << Cout("Nested error: " \o exc.nested.what) >>
                     ELSE << >>)
               ELSE << >>)
    /\ exc' = (IF Catches("CustomResourceException", exc.type) THEN NoExc ELSE exc)
    /\ pc' = After(exc', "ex6_r2", "outer_exit")
    /\ UNCHANGED << objVars, thrown, args, terminated, libVars >>

\* main.cpp 146-148
Ex6CreateR2 ==
    /\ pc = "ex6_r2"
    /\ DoCreate(R2, args.r2)
    /\ out' = out \o Header("6. Multiple Resources:") \o last'.out
    /\ pc' = "ex6_r3"
    /\ UNCHANGED << exc, thrown, args, libVars >>

\* main.cpp 149
Ex6CreateR3 ==
    /\ pc = "ex6_r3"
    /\ DoCreate(R3, args.r3)
    /\ out' = out \o last'.out
    /\ pc' = "ex6_perform_r2"
    /\ UNCHANGED << exc, thrown, args, libVars >>

\* main.cpp 150
Ex6PerformR2 ==
    /\ pc = "ex6_perform_r2"
    /\ DoPerform(R2)
    /\ out' = out \o last'.out
    /\ Raise(last'.exc)
    /\ pc' = After(last'.exc, "ex6_perform_r3", "ex6_exit_r3")
    /\ UNCHANGED << args, libVars >>

\* main.cpp 151
Ex6PerformR3 ==
    /\ pc = "ex6_perform_r3"
    /\ DoPerform(R3)
    /\ out' = out \o last'.out
    /\ Raise(last'.exc)
    /\ pc' = "ex6_exit_r3"
    /\ UNCHANGED << args, libVars >>

\* The block left with r2, constructed first, destroyed first.
Ex6ExitR3_FirstConstructedFirst ==
    /\ pc = "ex6_exit_r3"
    /\ DoDestroy(R2)
    /\ out' = out \o last'.out
    /\ pc' = (IF terminated' THEN "terminated" ELSE "ex6_exit_r2")
    /\ UNCHANGED << exc, thrown, args, libVars >>

\* main.cpp 152 (the try block is left): r3, constructed last, goes first.
Ex6ExitR3 ==
    /\ pc = "ex6_exit_r3"
    /\ DoDestroy(R3)
    /\ out' = out \o last'.out
    /\ pc' = (IF terminated' THEN "terminated" ELSE "ex6_exit_r2")
    /\ UNCHANGED << exc, thrown, args, libVars >>

\* main.cpp 152 (the try block is left): then r2.
Ex6ExitR2 ==
    /\ pc = "ex6_exit_r2"
    /\ DoDestroy(R2)
    /\ out' = out \o last'.out
    /\ pc' = (IF terminated' THEN "terminated"
              ELSE After(exc, "outer_exit", "ex6_catch"))
    /\ UNCHANGED << exc, thrown, args, libVars >>

\* main.cpp 152-154
Ex6Catch ==
    /\ pc = "ex6_catch"
    /\ out' = out \o
              (IF Catches("CustomResourceException", exc.type)
               THEN << Cout("Resource error: " \o exc.what) >> ELSE << >>)
    /\ exc' = (IF Catches("CustomResourceException", exc.type) THEN NoExc ELSE exc)
    /\ pc' = "outer_exit"
    /\ UNCHANGED << objVars, thrown, args, terminated, libVars >>

\* main.cpp 156 (the outer try block is left, normally or by an exception):
\* the std::unique_ptr `resource` deletes its Resource.
OuterExit ==
    /\ pc = "outer_exit"
    /\ DoDestroy(Basic)
    /\ out' = out \o last'.out
    /\ pc' = (IF terminated' THEN "terminated" ELSE After(exc, "return", "top_catch"))
    /\ UNCHANGED << exc, thrown, args, libVars >>

\* main.cpp 156-158; an exception no handler takes calls std::terminate.
TopCatch ==
    /\ pc = "top_catch"
    /\ out' = out \o
              (IF Catches("std::exception", exc.type)
               THEN << Cout("Top-level catch: " \o exc.what) >> ELSE << >>)
    /\ exc' = (IF Catches("std::exception", exc.type) THEN NoExc ELSE exc)
    /\ terminated' = (exc' # NoExc)
    /\ pc' = (IF terminated' THEN "terminated" ELSE "return")
    /\ UNCHANGED << objVars, thrown, args, libVars >>

\* main.cpp 160
Return ==
    /\ pc = "return"
    /\ pc' = "done"
    /\ UNCHANGED << objVars, out, exc, thrown, args, terminated, libVars >>

NextMain ==
    \/ Ex1Create
    \/ Ex1Perform
    \/ Ex2Throw
    \/ Ex2Catch
    \/ Ex3Create
    \/ Ex3Perform
    \/ Ex3Exit
    \/ Ex4Divide
    \/ Ex4Catch
    \/ Ex5Throw
    \/ Ex5Wrap
    \/ Ex5Catch
    \/ Ex6CreateR2
    \/ Ex6CreateR3
    \/ Ex6PerformR2
    \/ Ex6PerformR3
    \/ Ex6ExitR3
    \/ Ex6ExitR2
    \/ Ex6Catch
    \/ OuterExit
    \/ TopCatch
    \/ Return

SpecMain == InitMain /\ [][NextMain]_vars

----------------------------------------------------------------------------
(* Properties of class Resource, checked under Spec *)

LastIs(op) == last.op = op

\* The lines of the sequence s written to std::cerr.
CerrLines(s) == { i \in 1..Len(s) : s[i].ch = "cerr" }

\* C1: for every name and after every sequence of calls, no failure leaves
\* the destructor: the failure its close() raised is handled inside it and
\* written once to std::cerr, the destructor returns normally and
\* std::terminate is not called.
C1_DestructorContainsFailure ==
    LastIs("destroy") =>
        /\ last.exc = NoExc
        /\ ~terminated
        /\ life[last.obj] = "gone"
        /\ last.wasOpen => Count(last.out, ClosedLine(last.name)) = 1
        /\ (last.wasOpen /\ last.name = Failing) => last.raised = CloseFailed(last.name)
        /\ last.raised # NoExc =>
               /\ Count(last.out, DestructorLine(last.raised)) = 1
               /\ Cardinality(CerrLines(last.out)) = 1

C1_Witness ==
    /\ LastIs("destroy")
    /\ last.wasOpen
    /\ last.raised = CloseFailed(Failing)
    /\ last.out = << ClosedLine(Failing), DestructorLine(CloseFailed(Failing)) >>

\* C2: close() on an open resource leaves it closed whatever its name; it
\* throws CloseFailed exactly when the name is "failing", and then the
\* resource is already closed: performOperation on it throws ResourceClosed.
C2_CloseAlwaysCloses ==
    (LastIs("close") /\ last.wasOpen) =>
        /\ ~is_open_[last.obj]
        /\ last.out = << ClosedLine(last.name) >>
        /\ (last.name = Failing) => last.exc = CloseFailed(last.name)
        /\ (last.name # Failing) => last.exc = NoExc
        /\ performOperation(name_[last.obj], is_open_[last.obj]).exc
               = ResourceClosed(last.name)

C2_Witness ==
    /\ LastIs("close")
    /\ last.wasOpen
    /\ last.exc = CloseFailed(Failing)
    /\ ~is_open_[last.obj]

\* C3: close() on a resource that is not open (an earlier close() closed it,
\* whether or not that call threw) changes no field, writes no line and
\* throws nothing; a resource is never reported closed, nor its close
\* failure thrown, a second time.
C3_CloseIdempotent ==
    (LastIs("close") /\ ~last.wasOpen) =>
        /\ last.out = << >>
        /\ last.exc = NoExc
        /\ ~is_open_[last.obj]
        /\ name_[last.obj] = last.name
        /\ last.id # 0 => (nClosed[last.id] = 1 /\ nPropagated[last.id] <= 1)

C3_Witness ==
    /\ LastIs("close")
    /\ ~last.wasOpen
    /\ last.name = Failing
    /\ last.id # 0
    /\ nPropagated[last.id] = 1

\* C4: performOperation() on a closed resource throws ResourceClosed whatever
\* the name (also for "faulty", where it is not ResourceFaulty) and writes no
\* "operation performed" line.
C4_ClosedOperationFails ==
    (LastIs("performOperation") /\ ~last.wasOpen) =>
        /\ last.exc = ResourceClosed(last.name)
        /\ last.exc # ResourceFaulty(last.name)
        /\ last.out = << >>

C4_Witness ==
    /\ LastIs("performOperation")
    /\ ~last.wasOpen
    /\ last.name = Faulty
    /\ last.exc = ResourceClosed(Faulty)

\* C5: performOperation() on an open resource throws ResourceFaulty exactly
\* when the name is "faulty"; with any other name ("failing" too) it returns
\* normally and writes one "operation performed" line.
C5_OpenOperation ==
    (LastIs("performOperation") /\ last.wasOpen) =>
        /\ (last.name = Faulty) <=> (last.exc # NoExc)
        /\ (last.name = Faulty) => (last.exc = ResourceFaulty(Faulty) /\ last.out = << >>)
        /\ (last.name # Faulty) => last.out = << PerformedLine(last.name) >>

C5_Witness ==
    /\ LastIs("performOperation")
    /\ last.wasOpen
    /\ last.name = Failing
    /\ last.exc = NoExc
    /\ last.out = << PerformedLine(Failing) >>

\* C6 as stated: over every sequence of calls, move construction and move
\* assignment included, a live object that is closed is never open again.
C6_NeverReopens ==
    [][ \A o \in Slots :
            (life[o] = "live" /\ ~is_open_[o]) => ~is_open_'[o] ]_vars

\* C6 amended: a live object that is closed becomes open again only as the
\* destination of a move assignment from another object that was open; no
\* other call (construction of another object, performOperation, close, move
\* construction, destruction) opens a closed object.
C6_ReopensOnlyByMoveAssign ==
    [][ \A o \in Slots :
            (life[o] = "live" /\ ~is_open_[o] /\ is_open_'[o]) =>
                /\ last'.op = "moveAssign"
                /\ last'.obj = o
                /\ last'.other # o
                /\ last'.otherWasOpen ]_vars

C6_Witness ==
    /\ LastIs("moveAssign")
    /\ ~last.wasOpen
    /\ last.otherWasOpen
    /\ is_open_[last.obj]
    /\ ~is_open_[last.other]

\* C7: a resource is reported closed exactly once over its lifetime: not
\* while it is open, once from the call that closes it, and never again by
\* later close() calls or by the destructor; the destructor writes the
\* "closed" line exactly when the resource is still open.
C7_ClosedExactlyOnce ==
    /\ \A i \in Ids : nClosed[i] <= 1
    /\ \A o \in Slots :
           (life[o] = "live" /\ ident[o] # 0) =>
               nClosed[ident[o]] = (IF is_open_[o] THEN 0 ELSE 1)
    /\ LastIs("destroy") =>
           /\ Count(last.out, ClosedLine(last.name)) = (IF last.wasOpen THEN 1 ELSE 0)
           /\ last.id # 0 => nClosed[last.id] = 1

C7_Witness ==
    /\ LastIs("destroy")
    /\ ~last.wasOpen
    /\ last.id # 0
    /\ nClosed[last.id] = 1
    /\ last.out = << >>

\* C8: a failure is neither lost nor reported twice.  What performOperation()
\* or close() throws reaches the caller and is not written to std::cerr;
\* what the destructor's close() throws is written to std::cerr once and
\* does not reach the caller.  A resource named "failing" has had exactly
\* one close failure, thrown or written, once it is closed or destroyed, and
\* none before; a resource of another name has none.
C8_FailureExactlyOnce ==
    /\ (LastIs("performOperation") \/ LastIs("close")) => CerrLines(last.out) = {}
    /\ LastIs("destroy") =>
           /\ last.exc = NoExc
           /\ Cardinality(CerrLines(last.out)) = (IF last.raised # NoExc THEN 1 ELSE 0)
           /\ last.raised # NoExc => Count(last.out, DestructorLine(last.raised)) = 1
           /\ last.id # 0 =>
                  nPropagated[last.id] + nSunk[last.id] =
                      (IF last.name = Failing THEN 1 ELSE 0)
    /\ \A i \in Ids : nPropagated[i] + nSunk[i] <= 1
    /\ \A o \in Slots :
           (life[o] = "live" /\ ident[o] # 0) =>
               nPropagated[ident[o]] + nSunk[ident[o]] =
                   (IF name_[o] = Failing /\ ~is_open_[o] THEN 1 ELSE 0)

C8_Witness ==
    /\ LastIs("destroy")
    /\ ~last.wasOpen
    /\ last.name = Failing
    /\ last.id # 0
    /\ nPropagated[last.id] = 1
    /\ nSunk[last.id] = 0

----------------------------------------------------------------------------
(* Properties of the blocks of main(), checked under SpecMain *)

\* The name main() gives the object o.
GivenName(o) ==
    CASE o = Basic -> args.basic
      [] o = R1 -> args.r1
      [] o = R2 -> args.r2
      [] o = R3 -> args.r3

\* main() was given "faulty" and "failing" for r2 and r3, as in main.cpp.
FaultyThenFailing == args.r2 = Faulty /\ args.r3 = Failing

\* C9: with r2 named "faulty" and r3 named "failing", r2.performOperation()
\* throws ResourceFaulty, r3.performOperation() is never run, the handler
\* receives that ResourceFaulty, and leaving the block closes r2 and r3
\* exactly once each.
C9_FirstFailureStopsBlock ==
    FaultyThenFailing =>
        /\ pc # "ex6_perform_r3"
        /\ ~(LastIs("performOperation") /\ last.obj = R3)
        /\ pc = "ex6_exit_r3" =>
               /\ last.op = "performOperation" /\ last.obj = R2
               /\ exc = ResourceFaulty(Faulty)
               /\ is_open_[R2] /\ is_open_[R3]
        /\ pc = "ex6_catch" =>
               /\ exc = ResourceFaulty(Faulty)
               /\ life[R2] = "gone" /\ life[R3] = "gone"
               /\ nClosed[R2] = 1 /\ nClosed[R3] = 1
        /\ (pc \in { "outer_exit", "return", "done" } /\ life[R3] # "unborn") =>
               /\ life[R2] = "gone" /\ life[R3] = "gone"
               /\ nClosed[R2] = 1 /\ nClosed[R3] = 1
               /\ Count(out, Cout("Resource error: " \o ResourceFaulty(Faulty).what)) = 1

C9_Witness ==
    /\ FaultyThenFailing
    /\ pc = "outer_exit"
    /\ exc = NoExc
    /\ nClosed[R2] = 1 /\ nClosed[R3] = 1
    /\ out[Len(out)] = Cout("Resource error: Resource faulty is faulty")

\* C10: when an exception leaves a block that owns open resources, every
\* resource of the block has been closed by its destructor before a handler
\* receives the exception, the handler receives the exception that was
\* thrown (not a close failure), a close failure of the cleanup is written
\* to std::cerr, and std::terminate is never called.
C10_CleanupBeforeHandler ==
    /\ ~terminated
    /\ pc # "terminated"
    /\ pc = "ex6_catch" =>
           /\ exc # NoExc /\ exc = thrown
           /\ exc \in { ResourceFaulty(args.r2), ResourceFaulty(args.r3) }
           /\ \A o \in { R2, R3 } :
                  /\ life[o] = "gone"
                  /\ nClosed[o] = 1
                  /\ nPropagated[o] = 0
                  /\ nSunk[o] = (IF GivenName(o) = Failing THEN 1 ELSE 0)
    /\ pc = "top_catch" =>
           /\ exc # NoExc /\ exc = thrown
           /\ exc \in { ResourceFaulty(args.basic), ResourceFaulty(args.r1) }
           /\ \A o \in { Basic, R1 } :
                  life[o] # "unborn" =>
                      /\ life[o] = "gone"
                      /\ nClosed[o] = 1
                      /\ nPropagated[o] = 0
                      /\ nSunk[o] = (IF GivenName(o) = Failing THEN 1 ELSE 0)

C10_Witness ==
    /\ pc = "ex6_catch"
    /\ FaultyThenFailing
    /\ exc = ResourceFaulty(Faulty)
    /\ nSunk[R3] = 1
    /\ Count(out, DestructorLine(CloseFailed(Failing))) >= 1

----------------------------------------------------------------------------
(* Ownership transfer, checked under Spec *)

\* The last call moved a resource from one object into another one.
LastIsTransfer ==
    \/ LastIs("moveConstruct")
    \/ LastIs("moveAssign") /\ last.other # last.obj

\* An object that owns no resource: the source of a transfer (or an object
\* that took over from such a source).
Inert(o) == life[o] = "live" /\ ident[o] = 0

\* C11: a transfer gives the destination the name and the state the source
\* had just before it, and leaves the source inert: not open, so that its
\* destructor writes no "closed" line, raises nothing and reports nothing.
C11_TransferMovesNameAndState ==
    /\ LastIsTransfer =>
           /\ name_[last.obj] = last.otherName
           /\ is_open_[last.obj] = last.otherWasOpen
           /\ Inert(last.other)
           /\ ~is_open_[last.other]
           /\ Resource_dtor(name_[last.other], is_open_[last.other]).out = << >>
    /\ (LastIs("destroy") /\ last.id = 0) =>
           /\ last.out = << >>
           /\ last.raised = NoExc
           /\ last.exc = NoExc

C11_Witness ==
    /\ LastIs("destroy")
    /\ last.id = 0
    /\ last.name = Failing
    /\ ~last.wasOpen
    /\ last.out = << >>

\* The live objects that hold the resource constructed in slot i.
Holders(i) == { o \in Slots : life[o] = "live" /\ ident[o] = i }

\* A resource never has two owners: it has at most one holder, an object
\* that holds no resource is not open, so at most one open object stands for
\* a resource; its "closed" line is written at most once, and none is
\* written by an object that holds no resource.
AtMostOneOwner ==
    /\ \A i \in Slots :
           /\ Cardinality(Holders(i)) <= 1
           /\ Cardinality({ o \in Holders(i) : is_open_[o] }) <= 1 - nClosed[i]
    /\ \A o \in Slots : Inert(o) => ~is_open_[o]
    /\ nClosed[0] = 0
    /\ (LastIs("destroy") /\ last.wasOpen) => (last.id # 0 /\ nClosed[last.id] = 1)

\* C12: after any sequence of constructions and transfers a resource has
\* exactly one owner: never two (at most one open object stands for it), and
\* as long as it was opened and not yet closed there is one open object that
\* holds it, whose destructor will close it.
C12_ExactlyOneOwner ==
    /\ AtMostOneOwner
    /\ \A i \in Slots :
           (nOpened[i] = 1 /\ nClosed[i] = 0) =>
               Cardinality({ o \in Holders(i) : is_open_[o] }) = 1

----------------------------------------------------------------------------
(* class CustomResourceException, checked under SpecMain *)

\* C13: the wrapper built by CustomResourceException("Wrapper error", e)
\* around the std::runtime_error "Original error" has what() "Wrapper error",
\* and what() of its nested() is "Original error".
C13_NestedKeepsMessage ==
    pc = "ex5_catch" =>
        /\ exc.what = "Wrapper error"
        /\ exc.nested.present
        /\ exc.nested.what = "Original error"

\* The exceptions the state holds: in flight, as thrown, and those of the
\* last member call.
ExceptionsHeld == { exc, thrown, last.exc, last.raised } \ { NoExc }

\* C14: nested() is null exactly for the exceptions built with the
\* one-argument constructor and non-null exactly for the one built with the
\* two-argument constructor (main's "Wrapper error"); the failures of
\* performOperation and close (ResourceClosed, ResourceFaulty, CloseFailed)
\* all have a null nested().
C14_NestedOnlyWhenWrapped ==
    /\ \A e \in ExceptionsHeld :
           e.nested.present <=>
               (e.type = "CustomResourceException" /\ e.what = "Wrapper error")
    /\ pc = "ex5_catch" => exc.nested.present
    /\ \A e \in { last.exc, last.raised } : ~e.nested.present
    /\ \A n \in Names \cup { "" } :
           /\ performOperation(n, FALSE).exc = ResourceClosed(n)
           /\ ~performOperation(n, FALSE).exc.nested.present
           /\ ~performOperation(n, TRUE).exc.nested.present
           /\ ~close(n, TRUE).exc.nested.present

C14_Witness ==
    /\ pc = "ex6_catch"
    /\ exc = ResourceFaulty(Faulty)
    /\ ~exc.nested.present
    /\ last.raised = CloseFailed(Failing)
    /\ Count(out, Cout("Main error: Wrapper error")) = 1
    /\ Count(out, Cout("Nested error: " \o StdExceptionWhat)) = 1

----------------------------------------------------------------------------
(* Frame conditions, checked under Spec *)

\* C15: performOperation() changes no field of any object, whether it
\* returns or throws ResourceClosed or ResourceFaulty: an open resource stays
\* open and a closed one closed; and the destructor of an open resource,
\* "faulty" included, still writes its "closed" line.
C15_OperationChangesNothing ==
    [][ /\ last'.op = "performOperation" =>
               /\ name_' = name_
               /\ is_open_' = is_open_
               /\ life' = life
               /\ ident' = ident
               /\ << nOpened', nClosed', nPropagated', nSunk' >>
                      = << nOpened, nClosed, nPropagated, nSunk >>
               /\ last'.name = name_[last'.obj]
               /\ last'.wasOpen = is_open_[last'.obj]
        /\ (last.op = "performOperation" /\ last'.op = "destroy"
                /\ last'.obj = last.obj /\ last.wasOpen) =>
               last'.out[1] = ClosedLine(last.name) ]_vars

C15_Witness ==
    /\ LastIs("performOperation")
    /\ last.name = Faulty
    /\ last.wasOpen
    /\ last.exc = ResourceFaulty(Faulty)
    /\ is_open_[last.obj]
    /\ name_[last.obj] = Faulty

\* No object is live: every object constructed so far has been destroyed.
AllOutOfScope == \A o \in Slots : life[o] # "live"

\* C16: once all objects have gone out of scope, every resource that was
\* opened has had exactly one "closed" line, whatever constructions, move
\* constructions, move assignments and destructions came before.
C16_NoLeak ==
    AllOutOfScope => \A i \in Slots : nOpened[i] = 1 => nClosed[i] = 1

\* C17: an object a resource was moved out of behaves as a closed one:
\* performOperation() on it throws ResourceClosed, not ResourceFaulty, also
\* when its name is still "faulty", and writes nothing; close() on it writes
\* nothing, throws nothing and changes nothing, also when its name is still
\* "failing".
C17_MovedFromActsClosed ==
    /\ (LastIs("performOperation") /\ last.id = 0) =>
           /\ ~last.wasOpen
           /\ last.exc = ResourceClosed(last.name)
           /\ last.exc # ResourceFaulty(last.name)
           /\ last.out = << >>
    /\ (LastIs("close") /\ last.id = 0) =>
           /\ ~last.wasOpen
           /\ last.exc = NoExc
           /\ last.out = << >>
           /\ ~is_open_[last.obj]
           /\ name_[last.obj] = last.name
    /\ LastIsTransfer =>
           /\ performOperation(name_[last.other], is_open_[last.other]).exc
                  = ResourceClosed(name_[last.other])
           /\ close(name_[last.other], is_open_[last.other]).out = << >>
           /\ close(name_[last.other], is_open_[last.other]).exc = NoExc

C17_Witness ==
    /\ LastIs("performOperation")
    /\ last.id = 0
    /\ last.name = Faulty
    /\ last.exc = ResourceClosed(Faulty)
    /\ stringMove = "kept"

----------------------------------------------------------------------------
(* The order of main()'s output, checked under SpecMain *)

\* The lines of s written after the last line equal to x (all of s when
\* there is none).
LinesAfter(s, x) ==
    LET at == { i \in 1..Len(s) : s[i] = x }
        from == IF at = {} THEN 0 ELSE CHOOSE i \in at : \A j \in at : j <= i
    IN  SubSeq(s, from + 1, Len(s))

\* What example 6 has written so far.
Example6Lines == LinesAfter(out, Cout("6. Multiple Resources:"))

\* C18: the resources of one block are closed in the reverse order of their
\* construction: r3 is destroyed before r2 whatever their names, and with r2
\* "faulty" and r3 "failing" the lines of example 6 are: both opened, the
\* failing one closed, its close failure reported by the destructor, the
\* faulty one closed, and only then the handler's report of the faulty
\* operation.
C18_ReverseOrder ==
    /\ life[R2] = "gone" => life[R3] = "gone"
    /\ pc = "ex6_exit_r2" => life[R3] = "gone" /\ life[R2] = "live"
    /\ (FaultyThenFailing /\ pc = "ex6_exit_r2") =>
           Example6Lines = << OpenedLine(Faulty), OpenedLine(Failing),
                              ClosedLine(Failing),
                              DestructorLine(CloseFailed(Failing)) >>
    /\ (FaultyThenFailing /\ pc = "ex6_catch") =>
           Example6Lines = << OpenedLine(Faulty), OpenedLine(Failing),
                              ClosedLine(Failing),
                              DestructorLine(CloseFailed(Failing)),
                              ClosedLine(Faulty) >>
    /\ (FaultyThenFailing /\ pc = "outer_exit" /\ life[R3] # "unborn") =>
           Example6Lines = << OpenedLine(Faulty), OpenedLine(Failing),
                              ClosedLine(Failing),
                              DestructorLine(CloseFailed(Failing)),
                              ClosedLine(Faulty),
                              Cout("Resource error: " \o ResourceFaulty(Faulty).what) >>

C18_Witness ==
    /\ FaultyThenFailing
    /\ pc = "outer_exit"
    /\ life[R2] = "gone" /\ life[R3] = "gone"
    /\ Len(Example6Lines) = 6
    /\ Example6Lines[3] = ClosedLine(Failing)
    /\ Example6Lines[5] = ClosedLine(Faulty)

\* The positions of main() in the order of the program text.
PcOrder ==
    << "ex1_create", "ex1_perform", "ex2_throw", "ex2_catch", "ex3_create",
       "ex3_perform", "ex3_exit", "ex4_divide", "ex4_catch", "ex5_throw",
       "ex5_wrap", "ex5_catch", "ex6_r2", "ex6_r3", "ex6_perform_r2",
       "ex6_perform_r3", "ex6_exit_r3", "ex6_exit_r2", "ex6_catch",
       "outer_exit", "top_catch", "return", "done", "terminated", "killed" >>

Rank(l) == CHOOSE i \in 1..Len(PcOrder) : PcOrder[i] = l

\* The titles main() writes, in the order of the program text.
Titles ==
    << Cout("1. Smart Pointer Example:"), Cout("2. Multiple Catch Blocks:"),
       Cout("3. RAII Example:"), Cout("4. Exception Specification:"),
       Cout("5. Nested Exceptions:"), Cout("6. Multiple Resources:") >>

IsTitle(l) == \E i \in 1..Len(Titles) : Titles[i] = l

\* main() as written, while it runs: every exception is in the hands of the
\* handler of its own example, and neither the top-level handler nor
\* std::terminate is reached.
MainRunsNormally ==
    /\ pc \notin { "top_catch", "terminated", "killed" }
    /\ ~terminated
    /\ pc = "done" \/ ENABLED NextMain
    /\ pc = "ex2_catch" =>
           /\ exc = RuntimeError("Runtime error")
           /\ ~Catches("std::invalid_argument", exc.type)
           /\ Catches("std::exception", exc.type)
    /\ pc = "ex4_catch" =>
           /\ exc = InvalidArgument("Division by zero")
           /\ Catches("std::invalid_argument", exc.type)
    /\ pc = "ex5_catch" => Catches("CustomResourceException", exc.type)
    /\ pc = "ex6_catch" => exc = ResourceFaulty(Faulty)
    /\ pc \in { "ex3_create", "ex4_divide", "ex5_throw", "ex6_r2", "outer_exit",
                "return", "done" } => exc = NoExc
    /\ pc \in { "ex1_perform", "ex2_throw", "ex3_create", "ex4_divide",
                "ex5_throw", "ex6_r2", "ex6_catch", "outer_exit" } =>
           life[Basic] = "live" /\ is_open_[Basic] /\ nClosed[Basic] = 0

\* main() as written, when it has returned.
MainHasReturned ==
    pc = "done" =>
        /\ exc = NoExc
        /\ SelectSeq(out, IsTitle) = Titles
        /\ Count(out, Cout("Caught exception: Runtime error")) = 1
        /\ Count(out, Cout("Caught invalid argument: Runtime error")) = 0
        /\ Count(out, Cout("Division error: Division by zero")) = 1
        /\ Count(out, Cout("Main error: Wrapper error")) = 1
        /\ Count(out, Cout("Resource error: Resource faulty is faulty")) = 1
        /\ Count(out, Cout("Top-level catch: " \o thrown.what)) = 0
        /\ \A o \in Slots : life[o] = "gone"
        /\ nClosed[Basic] = 1
        /\ Count(out, ClosedLine("basic")) = 1
        /\ out[Len(out)] = ClosedLine("basic")
        /\ LinesAfter(out, Cout("Resource error: Resource faulty is faulty"))
               = << ClosedLine("basic") >>

\* C19: main() as written returns normally: every step moves forward in the
\* program text, each exception of examples 1 to 6 is caught by a handler of
\* its own example (the runtime error of example 2 by the handler of
\* std::exception, the division by zero of example 4 by the handler of
\* std::invalid_argument), the six examples run in order, the top-level
\* handler is never entered, and the Resource of example 1 is closed exactly
\* once, after example 6.
C19_TerminatesNormally ==
    /\ [](args = MainArgs => MainRunsNormally /\ MainHasReturned)
    /\ [][args = MainArgs => Rank(pc') > Rank(pc)]_vars

C19_Witness ==
    /\ args = MainArgs
    /\ pc = "done"
    /\ SelectSeq(out, IsTitle) = Titles
    /\ out[Len(out)] = ClosedLine("basic")
    /\ nClosed[Basic] = 1

----------------------------------------------------------------------------
(* Self-assignment, checked under Spec *)

\* The step is a move assignment of an object to itself.
SelfMoveAssign == last'.op = "moveAssign" /\ last'.other = last'.obj

\* C20: a move assignment of an object to itself changes nothing: the name
\* and the state of the object, and of every other object, are what they
\* were, nothing is written or thrown, and an object that was open is still
\* open, holds the resource it held, and its destructor closes it once.
C20_SelfAssignChangesNothing ==
    [][ SelfMoveAssign =>
            /\ UNCHANGED << life, name_, is_open_, ident >>
            /\ UNCHANGED << nOpened, nClosed, nPropagated, nSunk, terminated >>
            /\ last'.name = name_[last'.obj]
            /\ last'.wasOpen = is_open_[last'.obj]
            /\ last'.out = << >>
            /\ last'.exc = NoExc
            /\ is_open_[last'.obj] =>
                   /\ is_open_'[last'.obj]
                   /\ ident'[last'.obj] # 0
                   /\ nClosed'[ident'[last'.obj]] = 0
                   /\ ~Resource_dtor(name_'[last'.obj], is_open_'[last'.obj]).is_open
                   /\ Count(Resource_dtor(name_'[last'.obj], is_open_'[last'.obj]).out,
                            ClosedLine(name_[last'.obj])) = 1 ]_vars

C20_Witness ==
    /\ LastIs("moveAssign")
    /\ last.other = last.obj
    /\ last.wasOpen
    /\ is_open_[last.obj]
    /\ name_[last.obj] = Failing
    /\ nClosed[ident[last.obj]] = 0

====
